---- MODULE Spec2Model ----
(***************************************************************************)
(* Activity timeline event processing and archival of the research-agent   *)
(* frontend: App (onUpdateEvent, the archival effect, handleSubmit,         *)
(* handleCancel) and the ActivityTimeline component (groupedEvents).        *)
(*                                                                         *)
(* Strings whose characters the code inspects (node names, titles, the      *)
(* submitted text) are sequences of one-character strings.  Section types,  *)
(* payload types and payload data are only compared, so they are strings.   *)
(***************************************************************************)
EXTENDS Integers, Sequences, FiniteSets, TLC

VARIABLES processedEventsTimeline, historicalActivities,
          hasFinalizeEventOccurredRef, messages, isLoading,
          lastOp, finalizeInRun,
          processedEvents, groupedEvents, expandedSections,
          renderEvent, rendered,
          mounted, isOpen, chatHistory, mindIsLoading, error, rawMermaid,
          inflight, requestCount, issuedHere, settled

vars == <<processedEventsTimeline, historicalActivities,
          hasFinalizeEventOccurredRef, messages, isLoading,
          lastOp, finalizeInRun, processedEvents, groupedEvents,
          expandedSections, renderEvent, rendered,
          mounted, isOpen, chatHistory, mindIsLoading, error, rawMermaid,
          inflight, requestCount, issuedHere, settled>>

appVars == <<processedEventsTimeline, historicalActivities,
             hasFinalizeEventOccurredRef, messages, isLoading,
             lastOp, finalizeInRun>>

viewVars == <<processedEvents, groupedEvents, expandedSections>>

\* one timeline entry handed to the payload rendering, and what is rendered
renderVars == <<renderEvent, rendered>>

\* MindMapModal: whether an instance is mounted, its props isOpen and
\* chatHistory, its state (isLoading, error, rawMermaid), the fetch requests
\* not yet settled, the number of requests issued in all and by the mounted
\* instance, and the result of the last request that settled on its instance
mindVars == <<mounted, isOpen, chatHistory, mindIsLoading, error, rawMermaid,
              inflight, requestCount, issuedHere, settled>>

\* the state of App without the history variable lastOp
appState == <<processedEventsTimeline, historicalActivities,
              hasFinalizeEventOccurredRef, messages, isLoading, finalizeInRun>>

\* everything outside App, and everything outside ActivityTimeline
nonAppVars == <<viewVars, renderVars, mindVars>>
nonViewVars == <<appState, renderVars, mindVars>>

----------------------------------------------------------------------------
(* Bounds *)

MaxTimeline == 2
MaxMessages == 2
MaxViewLen == 4
MaxSources == 2
MaxRequests == 3

----------------------------------------------------------------------------
(* Character strings *)

LowerCaseLetters == <<"a","b","c","d","e","f","g","h","i","j","k","l","m",
                      "n","o","p","q","r","s","t","u","v","w","x","y","z">>
UpperCaseLetters == <<"A","B","C","D","E","F","G","H","I","J","K","L","M",
                      "N","O","P","Q","R","S","T","U","V","W","X","Y","Z">>

\* String.prototype.toUpperCase on one character
ToUpperCase(c) ==
    IF \E i \in 1..Len(LowerCaseLetters) : LowerCaseLetters[i] = c
    THEN UpperCaseLetters[CHOOSE i \in 1..Len(LowerCaseLetters) : LowerCaseLetters[i] = c]
    ELSE c

\* variant: replace('_', ' ') without the g flag
ReplaceFirstUnderscore(s) ==
    [i \in 1..Len(s) |->
        IF s[i] = "_" /\ (\A j \in 1..(i - 1) : s[j] # "_") THEN " " ELSE s[i]]

\* nodeName.replace(/_/g, ' ')
ReplaceUnderscores(s) == [i \in 1..Len(s) |-> IF s[i] = "_" THEN " " ELSE s[i]]

\* title.charAt(0).toUpperCase() + title.slice(1)
Capitalize(s) == IF Len(s) = 0 THEN <<>> ELSE <<ToUpperCase(s[1])>> \o Tail(s)

DefaultTitle(nodeName) == Capitalize(ReplaceUnderscores(nodeName))

IsWhitespace(c) == c \in {" ", "\t", "\n"}

RECURSIVE TrimStart(_)
TrimStart(s) == IF Len(s) > 0 /\ IsWhitespace(s[1]) THEN TrimStart(Tail(s)) ELSE s

RECURSIVE TrimEnd(_)
TrimEnd(s) ==
    IF Len(s) > 0 /\ IsWhitespace(s[Len(s)]) THEN TrimEnd(SubSeq(s, 1, Len(s) - 1)) ELSE s

\* String.prototype.trim
Trim(s) == TrimEnd(TrimStart(s))

----------------------------------------------------------------------------
(* Node names and titles of onUpdateEvent *)

generate_query == <<"g","e","n","e","r","a","t","e","_","q","u","e","r","y">>
web_research == <<"w","e","b","_","r","e","s","e","a","r","c","h">>
reflection == <<"r","e","f","l","e","c","t","i","o","n">>
code_execution == <<"c","o","d","e","_","e","x","e","c","u","t","i","o","n">>
finalize_answer == <<"f","i","n","a","l","i","z","e","_","a","n","s","w","e","r">>

TitleGeneratingSearchQueries ==
    <<"G","e","n","e","r","a","t","i","n","g"," ","S","e","a","r","c","h"," ",
      "Q","u","e","r","i","e","s">>
TitleWebResearchStatus ==
    <<"W","e","b"," ","R","e","s","e","a","r","c","h"," ","S","t","a","t","u","s">>
TitleFoundSources == <<"F","o","u","n","d"," ","S","o","u","r","c","e","s">>
TitleReflectionStatus ==
    <<"R","e","f","l","e","c","t","i","o","n"," ","S","t","a","t","u","s">>
TitleReflectionPlan == <<"R","e","f","l","e","c","t","i","o","n"," ","P","l","a","n">>
TitleCodeExecutionStatus ==
    <<"C","o","d","e"," ","E","x","e","c","u","t","i","o","n"," ","S","t","a","t","u","s">>
TitleCodeExecutionOutput ==
    <<"C","o","d","e"," ","E","x","e","c","u","t","i","o","n"," ","O","u","t","p","u","t">>
TitleFinalizingAnswer ==
    <<"F","i","n","a","l","i","z","i","n","g"," ","A","n","s","w","e","r">>

----------------------------------------------------------------------------
(* Raw events.  A tick is the sequence of the object's own keys in for..in  *)
(* order, each with its value.  A value is null, a primitive or an object;   *)
(* an object may or may not carry a type field.                              *)

NodeEvent(kind, hasType, type, data) ==
    [kind |-> kind, hasType |-> hasType, type |-> type, data |-> data]

Typed(type, data) == NodeEvent("object", TRUE, type, data)
Untyped(data) == NodeEvent("object", FALSE, "", data)
NullValue == NodeEvent("null", FALSE, "", "")
Primitive == NodeEvent("string", FALSE, "", "")

Node(name, ev) == [name |-> name, ev |-> ev]

\* variant: every object is accepted, with or without a type
AcceptedAnyObject(nodeEvent) == nodeEvent.kind = "object"

\* nodeEvent && typeof nodeEvent === 'object' && nodeEvent.type
Accepted(nodeEvent) ==
    nodeEvent.kind = "object" /\ nodeEvent.hasType /\ nodeEvent.type # ""

SectionTypeOf(nodeName) ==
    IF nodeName = generate_query THEN "Querying"
    ELSE IF nodeName = web_research THEN "Searching"
    ELSE IF nodeName = reflection THEN "Planning"
    ELSE IF nodeName = code_execution THEN "Coding"
    ELSE IF nodeName = finalize_answer THEN "Finalizing"
    ELSE "General"

TitleOf(nodeName, type) ==
    IF nodeName = generate_query THEN TitleGeneratingSearchQueries
    ELSE IF nodeName = web_research THEN
        IF type = "status" THEN TitleWebResearchStatus
        ELSE IF type = "sources" THEN TitleFoundSources
        ELSE DefaultTitle(nodeName)
    ELSE IF nodeName = reflection THEN
        IF type = "status" THEN TitleReflectionStatus
        ELSE IF type = "plan" THEN TitleReflectionPlan
        ELSE DefaultTitle(nodeName)
    ELSE IF nodeName = code_execution THEN
        IF type = "status" THEN TitleCodeExecutionStatus
        ELSE IF type = "output" THEN TitleCodeExecutionOutput
        ELSE DefaultTitle(nodeName)
    ELSE IF nodeName = finalize_answer THEN TitleFinalizingAnswer
    ELSE DefaultTitle(nodeName)

\* variant: isSources set for a sources payload of any node
IsSourcesAnyNode(nodeName, type) == type = "sources"

IsSourcesOf(nodeName, type) == nodeName = web_research /\ type = "sources"

\* the object pushed onto newProcessedEvents
ProcessedEvent(nodeName, nodeEvent) ==
    [title |-> TitleOf(nodeName, nodeEvent.type),
     data |-> nodeEvent.data,
     sectionType |-> SectionTypeOf(nodeName),
     isSources |-> IsSourcesOf(nodeName, nodeEvent.type)]

\* the for..in loop of onUpdateEvent: newProcessedEvents after all keys
RECURSIVE NewProcessedEvents(_)
NewProcessedEvents(event) ==
    IF Len(event) = 0 THEN <<>>
    ELSE (IF Accepted(Head(event).ev)
          THEN <<ProcessedEvent(Head(event).name, Head(event).ev)>>
          ELSE <<>>) \o NewProcessedEvents(Tail(event))

\* the ref after the loop: set by an accepted finalize_answer node
FinalizeRefAfter(event, ref) ==
    ref \/ \E i \in 1..Len(event) :
              event[i].name = finalize_answer /\ Accepted(event[i].ev)

\* variant: the new entries are put in front of the previous ones
AppendEventsInFront(prevEvents, newProcessedEvents) ==
    IF Len(newProcessedEvents) > 0 THEN newProcessedEvents \o prevEvents
    ELSE prevEvents

\* setProcessedEventsTimeline((prev) => [...prev, ...newProcessedEvents])
AppendEvents(prevEvents, newProcessedEvents) ==
    IF Len(newProcessedEvents) > 0 THEN prevEvents \o newProcessedEvents
    ELSE prevEvents

----------------------------------------------------------------------------
(* Messages of the thread: type is "human" or "ai"; id 0 is a missing id. *)

NoId == 0

Message(type, id) == [type |-> type, id |-> id]

\* variant: the archive is filed under the first message instead of the last
ArchivalEffectFirstMessage(ref, loading, msgs, timeline, hist) ==
    IF ref /\ ~loading /\ Len(msgs) > 0
    THEN LET lastMessage == msgs[1]
         IN  [hist |-> IF lastMessage.type = "ai" /\ lastMessage.id # NoId
                       THEN [m \in DOMAIN hist \cup {lastMessage.id} |->
                               IF m = lastMessage.id THEN timeline ELSE hist[m]]
                       ELSE hist,
              ref |-> FALSE]
    ELSE [hist |-> hist, ref |-> ref]

\* variant: the effect does not wait for the run to stop
ArchivalEffectWhileLoading(ref, loading, msgs, timeline, hist) ==
    IF ref /\ Len(msgs) > 0
    THEN LET lastMessage == msgs[Len(msgs)]
         IN  [hist |-> IF lastMessage.type = "ai" /\ lastMessage.id # NoId
                       THEN [m \in DOMAIN hist \cup {lastMessage.id} |->
                               IF m = lastMessage.id THEN timeline ELSE hist[m]]
                       ELSE hist,
              ref |-> FALSE]
    ELSE [hist |-> hist, ref |-> ref]

\* the archival useEffect, run after every commit that changed one of its
\* dependencies; returns the map and the ref it leaves behind
ArchivalEffect(ref, loading, msgs, timeline, hist) ==
    IF ref /\ ~loading /\ Len(msgs) > 0
    THEN LET lastMessage == msgs[Len(msgs)]
         IN  [hist |-> IF lastMessage.type = "ai" /\ lastMessage.id # NoId
                       THEN [m \in DOMAIN hist \cup {lastMessage.id} |->
                               IF m = lastMessage.id THEN timeline ELSE hist[m]]
                       ELSE hist,
              ref |-> FALSE]
    ELSE [hist |-> hist, ref |-> ref]

\* variant: the submission leaves the ref as it is
SubmitRefKept(ref) == ref

\* handleSubmit: the ref after a submission that is not blank
SubmitRef(ref) == FALSE

\* variant: the submission leaves the live timeline as it is
SubmitTimelineKept(timeline) == timeline

\* handleSubmit: the live timeline after a submission that is not blank
SubmitTimeline(timeline) == <<>>

Op(op, event, text) == [op |-> op, event |-> event, text |-> text]

----------------------------------------------------------------------------
(* The ActivityTimeline component: groupedEvents is the reduce over the     *)
(* processedEvents prop.  The accumulator object is the sequence of its      *)
(* keys in insertion order, each with its array.                             *)

\* variant: a new category is put in front of the known ones
GroupStepNewKeyFirst(acc, event) ==
    IF \E i \in 1..Len(acc) : acc[i].key = event.sectionType
    THEN [i \in 1..Len(acc) |->
            IF acc[i].key = event.sectionType
            THEN [key |-> acc[i].key, events |-> Append(acc[i].events, event)]
            ELSE acc[i]]
    ELSE <<[key |-> event.sectionType, events |-> <<event>>]>> \o acc

GroupStep(acc, event) ==
    IF \E i \in 1..Len(acc) : acc[i].key = event.sectionType
    THEN [i \in 1..Len(acc) |->
            IF acc[i].key = event.sectionType
            THEN [key |-> acc[i].key, events |-> Append(acc[i].events, event)]
            ELSE acc[i]]
    ELSE Append(acc, [key |-> event.sectionType, events |-> <<event>>])

RECURSIVE Reduce(_, _)
Reduce(events, acc) ==
    IF Len(events) = 0 THEN acc
    ELSE Reduce(Tail(events), GroupStep(acc, Head(events)))

GroupedEvents(events) == Reduce(events, <<>>)

\* Object.keys(groupedEvents)
GroupKeys(grouped) == {grouped[i].key : i \in 1..Len(grouped)}

\* expandedSections is the set of its keys with their values; {} is the
\* function with no key.

\* variant: a missing key is inserted with the value false
AutoExpandCollapsed(grouped, expanded) ==
    LET missing == {c \in GroupKeys(grouped) : c \notin DOMAIN expanded}
    IN  [c \in DOMAIN expanded \cup missing |->
            IF c \in missing THEN FALSE ELSE expanded[c]]

\* variant: keys of categories that are no longer in the view are dropped
AutoExpandPrune(grouped, expanded) ==
    [c \in GroupKeys(grouped) |->
        IF c \in DOMAIN expanded THEN expanded[c] ELSE TRUE]

\* the auto-expand useMemo of a render and the re-render it causes: each
\* key of groupedEvents that is undefined in expandedSections is set to true
AutoExpand(grouped, expanded) ==
    LET missing == {c \in GroupKeys(grouped) : c \notin DOMAIN expanded}
    IN  [c \in DOMAIN expanded \cup missing |->
            IF c \in missing THEN TRUE ELSE expanded[c]]

\* variant: the click always collapses the category
ToggleSectionCollapse(prev, sectionType) ==
    [c \in DOMAIN prev \cup {sectionType} |->
        IF c = sectionType THEN FALSE ELSE prev[c]]

\* toggleSection's updater: {...prev, [sectionType]: !prev[sectionType]};
\* prev[sectionType] of a missing key is undefined, and !undefined is true
ToggleSection(prev, sectionType) ==
    [c \in DOMAIN prev \cup {sectionType} |->
        IF c = sectionType
        THEN ~(IF sectionType \in DOMAIN prev THEN prev[sectionType] ELSE FALSE)
        ELSE prev[c]]

----------------------------------------------------------------------------
(* Payload rendering.  A JavaScript value is a record of its typeof kind,   *)
(* its text when it is a string and its number when it is a number.          *)

Value(kind, text, num) == [kind |-> kind, text |-> text, num |-> num]
Absent == Value("undefined", "", 0)
Text(s) == Value("string", s, 0)
Num(n) == Value("number", "", n)

\* typeof v === 'string'
TypeofString(v) == v.kind = "string"

\* the truthiness of a value in `v && ...` and `v || ...`
Truthy(v) ==
    CASE v.kind = "string" -> v.text # ""
      [] v.kind = "number" -> v.num # 0
      [] OTHER -> FALSE

\* an element of a sources array
Source(url, title) == [url |-> url, title |-> title]

\* event.data: a string, an array of sources, an object with the fields
\* stdout, stderr and error, or null
Data(kind, text, items, out, err, exc) ==
    [kind |-> kind, text |-> text, items |-> items,
     stdout |-> out, stderr |-> err, error |-> exc]
DataString(s) == Data("string", s, <<>>, Absent, Absent, Absent)
DataArray(items) == Data("array", "", items, Absent, Absent, Absent)
DataObject(out, err, exc) == Data("object", "", <<>>, out, err, exc)
DataNull == Data("null", "", <<>>, Absent, Absent, Absent)

\* the part of a ProcessedEvent the payload rendering reads
RenderEntry(isSources, data) == [isSources |-> isSources, data |-> data]

\* one rendered element: a link with its label and href, a text paragraph,
\* a labelled block, the JSON dump, or a value React renders as bare text
Block(block, label, href) == [block |-> block, label |-> label, href |-> href]

\* {v && <element>}: the element when v is truthy; a falsy v is itself the
\* child, and React renders the number 0 as text and "", null, undefined
\* as nothing
AndElement(v, element) ==
    IF Truthy(v) THEN <<element>>
    ELSE IF v.kind = "number" THEN <<Block("bare", v, Absent)>>
    ELSE <<>>

\* source.title || source.url
LinkLabel(source) == IF Truthy(source.title) THEN source.title ELSE source.url

RECURSIVE RenderSources(_)
RenderSources(items) ==
    IF items = <<>> THEN <<>>
    ELSE AndElement(Head(items).url,
                    Block("link", LinkLabel(Head(items)), Head(items).url))
         \o RenderSources(Tail(items))

\* the fragment for a code execution output object
RenderOutput(data) ==
    AndElement(data.stdout, Block("STDOUT", data.stdout, Absent))
    \o AndElement(data.stderr, Block("STDERR", data.stderr, Absent))
    \o AndElement(data.error, Block("ERROR", data.error, Absent))

\* the conditional chain that renders event.data
RenderEventData(event) ==
    IF event.isSources /\ event.data.kind = "array"
    THEN RenderSources(event.data.items)
    ELSE IF event.data.kind = "string"
    THEN <<Block("text", Text(event.data.text), Absent)>>
    ELSE IF /\ event.data.kind # "null"
            /\ \/ TypeofString(event.data.stdout)
               \/ TypeofString(event.data.stderr)
               \/ TypeofString(event.data.error)
    THEN RenderOutput(event.data)
    ELSE <<Block("dump", Absent, Absent)>>

RenderInit ==
    /\ renderEvent = RenderEntry(FALSE, DataNull)
    /\ rendered = <<>>

----------------------------------------------------------------------------
(* MindMapModal *)

\* error === null
NullError == "null"

\* what a fetch ends with: a 2xx response with its mermaid_string ("" when
\* the field is missing or empty), a non-2xx response, or a rejected fetch
\* with its err.message
Response(kind, mermaid_string, message) ==
    [kind |-> kind, mermaid_string |-> mermaid_string, message |-> message]

\* a request in flight; orphan when the instance that issued it is gone
Request(id, orphan) == [id |-> id, orphan |-> orphan]

\* variant: the effect does not look at the chat history
EffectFiresAnyHistory(open, history) == open

\* the condition of the fetch effect
EffectFires(open, history) == open /\ Len(history) > 0

\* err.message || "Could not load mind map data."
ErrorMessage(response) ==
    CASE response.kind = "http" -> "Server error"
      [] response.kind = "ok" ->
            "Received no mermaid_string or empty data in response."
      [] OTHER -> IF response.message # "" THEN response.message
                  ELSE "Could not load mind map data."

\* variant: any 2xx response counts as a diagram
SettleAnyBody(response, prevError) ==
    IF response.kind = "ok"
    THEN [rawMermaid |-> response.mermaid_string, error |-> prevError]
    ELSE [rawMermaid |-> "", error |-> ErrorMessage(response)]

\* the then/catch chain of one fetch: rawMermaid and error after it
Settle(response, prevError) ==
    IF response.kind = "ok" /\ response.mermaid_string # ""
    THEN [rawMermaid |-> response.mermaid_string, error |-> prevError]
    ELSE [rawMermaid |-> "", error |-> ErrorMessage(response)]

MindInit ==
    /\ mounted = FALSE
    /\ isOpen = FALSE
    /\ chatHistory = <<>>
    /\ mindIsLoading = FALSE
    /\ error = NullError
    /\ rawMermaid = ""
    /\ inflight = {}
    /\ requestCount = 0
    /\ issuedHere = 0
    /\ settled = "none"

----------------------------------------------------------------------------
(* Inputs *)

UnknownNode == <<"a","_","b">>

TickEmpty == <<>>
TickResearch == <<Node(web_research, Typed("sources", "s1")),
                  Node(reflection, Typed("plan", "p1"))>>
TickFinalize == <<Node(finalize_answer, Typed("status", "f1"))>>
TickUntyped == <<Node(code_execution, NullValue),
                 Node(finalize_answer, Untyped("f2")),
                 Node(UnknownNode, Typed("note", "g1"))>>

TickEvents == {TickEmpty, TickResearch, TickFinalize, TickUntyped}

SubmitTexts == {<<" ">>, <<" ", "q">>}

\* the messages the thread can gain: human, ai with an id, ai without one
MessageKinds == {<<"human", TRUE>>, <<"ai", TRUE>>, <<"ai", FALSE>>}

\* the section types onUpdateEvent can produce
AllSectionTypes ==
    {"Querying", "Searching", "Reflecting", "Executing", "Finalizing", "General"}

\* every value of expandedSections over those section types
ExpandStates ==
    UNION {[keys -> BOOLEAN] : keys \in SUBSET AllSectionTypes}

\* the values a field of an output object or of a source takes
FieldValues == {Absent, Text(""), Text("ok"), Num(0), Num(5)}
UrlValues == {Absent, Text(""), Text("u"), Num(0)}
TitleValues == {Absent, Text(""), Text("t")}
Sources == {Source(url, title) : url \in UrlValues, title \in TitleValues}

\* the values of event.data
RenderData ==
    {DataNull, DataString(""), DataString("x")}
    \cup {DataObject(o, e, r) : o \in FieldValues, e \in FieldValues, r \in FieldValues}
    \cup {DataArray(items) : items \in UNION {[1..n -> Sources] : n \in 0..MaxSources}}

RenderEntries == {RenderEntry(b, d) : b \in BOOLEAN, d \in RenderData}

\* the chat histories handed to the modal
ChatHistories == {<<>>, <<"human">>, <<"human", "ai">>}

\* the ways a fetch ends
Responses ==
    {Response("ok", "graph TD", ""), Response("ok", "", ""),
     Response("http", "", ""),
     Response("network", "", "Failed to fetch"), Response("network", "", "")}

ViewSectionTypes == {"Querying", "Searching", "Finalizing"}

ViewEntries ==
    {[title |-> <<"t">>, data |-> d, sectionType |-> s, isSources |-> FALSE] :
        d \in {"x", "y"}, s \in ViewSectionTypes}

----------------------------------------------------------------------------
(* State after construction *)

AppInit ==
    /\ processedEventsTimeline = <<>>
    /\ historicalActivities = <<>>
    /\ hasFinalizeEventOccurredRef = FALSE
    /\ messages = <<>>
    /\ isLoading = FALSE
    /\ finalizeInRun = FALSE

ViewInit ==
    /\ processedEvents = <<>>
    /\ groupedEvents = <<>>
    /\ expandedSections = <<>>

Init ==
    /\ AppInit
    /\ ViewInit
    /\ RenderInit
    /\ MindInit
    /\ lastOp = Op("init", <<>>, <<>>)

----------------------------------------------------------------------------
(* App: every handler is followed by the commit of its state updates and    *)
(* the archival effect of that commit.  finalizeInRun records whether a      *)
(* Finalizing entry was classified since the last dispatched submission.     *)

\* the stream's onUpdateEvent callback; the stream delivers ticks only
\* between thread.submit and the end of the run
OnUpdateEvent(event) ==
    /\ isLoading
    /\ LET newProcessedEvents == NewProcessedEvents(event)
           timeline == AppendEvents(processedEventsTimeline, newProcessedEvents)
           ref == FinalizeRefAfter(event, hasFinalizeEventOccurredRef)
           eff == ArchivalEffect(ref, isLoading, messages, timeline,
                                 historicalActivities)
       IN  /\ Len(timeline) <= MaxTimeline
           /\ processedEventsTimeline' = timeline
           /\ hasFinalizeEventOccurredRef' = eff.ref
           /\ historicalActivities' = eff.hist
           /\ finalizeInRun' =
                (finalizeInRun \/
                 \E i \in 1..Len(newProcessedEvents) :
                     newProcessedEvents[i].sectionType = "Finalizing")
    /\ lastOp' = Op("tick", event, <<>>)
    /\ UNCHANGED <<messages, isLoading, nonAppVars>>

\* handleSubmit; thread.submit marks the thread as loading.  handleSubmit
\* does not look at thread.isLoading, so a submission is accepted during a
\* run too; the thread is modelled as one stream, which the new run replaces.
HandleSubmit(submittedInputValue) ==
    /\ IF Len(Trim(submittedInputValue)) = 0
       THEN UNCHANGED <<processedEventsTimeline, hasFinalizeEventOccurredRef,
                        historicalActivities, isLoading, finalizeInRun>>
       ELSE LET timeline == SubmitTimeline(processedEventsTimeline)
                ref == SubmitRef(hasFinalizeEventOccurredRef)
                eff == ArchivalEffect(ref, TRUE, messages, timeline,
                                      historicalActivities)
            IN  /\ processedEventsTimeline' = timeline
                /\ hasFinalizeEventOccurredRef' = eff.ref
                /\ historicalActivities' = eff.hist
                /\ isLoading' = TRUE
                /\ finalizeInRun' = FALSE
    /\ lastOp' = Op("submit", <<>>, submittedInputValue)
    /\ UNCHANGED <<messages, nonAppVars>>

\* thread.messages gains a message (stream values or thread history)
MessagesChange(type, hasId) ==
    /\ Len(messages) < MaxMessages
    /\ LET msgs == Append(messages,
                          Message(type, IF hasId THEN Len(messages) + 1 ELSE NoId))
           eff == ArchivalEffect(hasFinalizeEventOccurredRef, isLoading, msgs,
                                 processedEventsTimeline, historicalActivities)
       IN  /\ messages' = msgs
           /\ hasFinalizeEventOccurredRef' = eff.ref
           /\ historicalActivities' = eff.hist
    /\ lastOp' = Op("messages", <<>>, <<>>)
    /\ UNCHANGED <<processedEventsTimeline, isLoading, finalizeInRun, nonAppVars>>

\* the run ends: thread.isLoading becomes false
StreamEnd ==
    /\ isLoading
    /\ LET eff == ArchivalEffect(hasFinalizeEventOccurredRef, FALSE, messages,
                                 processedEventsTimeline, historicalActivities)
       IN  /\ hasFinalizeEventOccurredRef' = eff.ref
           /\ historicalActivities' = eff.hist
    /\ isLoading' = FALSE
    /\ lastOp' = Op("streamEnd", <<>>, <<>>)
    /\ UNCHANGED <<processedEventsTimeline, messages, finalizeInRun, nonAppVars>>

\* handleCancel: thread.stop() and window.location.reload()
HandleCancel ==
    /\ processedEventsTimeline' = <<>>
    /\ historicalActivities' = <<>>
    /\ hasFinalizeEventOccurredRef' = FALSE
    /\ messages' = <<>>
    /\ isLoading' = FALSE
    /\ finalizeInRun' = FALSE
    /\ lastOp' = Op("cancel", <<>>, <<>>)
    /\ UNCHANGED nonAppVars

Next ==
    \/ \E event \in TickEvents : OnUpdateEvent(event)
    \/ \E text \in SubmitTexts : HandleSubmit(text)
    \/ \E kind \in MessageKinds : MessagesChange(kind[1], kind[2])
    \/ StreamEnd
    \/ HandleCancel

Spec == Init /\ [][Next]_vars

----------------------------------------------------------------------------
(* ActivityTimeline on its own: the parent passes a grown or an emptied     *)
(* processedEvents array and the component re-renders.                       *)

\* the parent appends an entry to the processedEvents prop
ViewAppend(event) ==
    /\ Len(processedEvents) < MaxViewLen
    /\ processedEvents' = Append(processedEvents, event)
    /\ groupedEvents' = GroupedEvents(processedEvents')
    /\ expandedSections' = AutoExpand(groupedEvents', expandedSections)
    /\ lastOp' = Op("viewAppend", <<>>, <<>>)
    /\ UNCHANGED nonViewVars

\* the parent passes an emptied processedEvents prop (a new submission)
ViewReset ==
    /\ processedEvents' = <<>>
    /\ groupedEvents' = GroupedEvents(processedEvents')
    /\ expandedSections' = AutoExpand(groupedEvents', expandedSections)
    /\ lastOp' = Op("viewReset", <<>>, <<>>)
    /\ UNCHANGED nonViewVars

\* a click on the header button of a rendered category: toggleSection,
\* then the re-render
ViewToggle(sectionType) ==
    /\ sectionType \in GroupKeys(groupedEvents)
    /\ expandedSections' =
          AutoExpand(groupedEvents, ToggleSection(expandedSections, sectionType))
    /\ lastOp' = Op("toggle", <<sectionType>>, <<>>)
    /\ UNCHANGED <<processedEvents, groupedEvents, nonViewVars>>

NextView ==
    \/ \E event \in ViewEntries : ViewAppend(event)
    \/ ViewReset
    \/ \E sectionType \in ViewSectionTypes : ViewToggle(sectionType)

SpecView == Init /\ [][NextView]_vars

----------------------------------------------------------------------------
(* Properties of the archival state machine (under Spec) *)

LastMessage(msgs) == msgs[Len(msgs)]

\* the tail of the message list is an assistant message with an identifier
TailIsAssistant(msgs) ==
    Len(msgs) > 0 /\ LastMessage(msgs).type = "ai" /\ LastMessage(msgs).id # NoId

HasFinalizing(timeline) ==
    \E i \in 1..Len(timeline) : timeline[i].sectionType = "Finalizing"

IsPrefix(s, t) == Len(s) <= Len(t) /\ SubSeq(t, 1, Len(s)) = s

Dispatched(op) == op.op = "submit" /\ Len(Trim(op.text)) > 0

\* every key of the archive before the step is still there with its value
ArchiveKept ==
    \A m \in DOMAIN historicalActivities :
        /\ m \in DOMAIN historicalActivities'
        /\ historicalActivities'[m] = historicalActivities[m]

\* C1: when the finalize signal is pending and a step leaves the run
\* inactive with an assistant message m at the tail, the archive of m after
\* the step is exactly the live timeline of that moment: the step itself
\* appended nothing, every entry appended before it is there in order, and
\* the Finalizing entry is among them.
C1_ArchiveIsLiveTimeline ==
    [][ (/\ hasFinalizeEventOccurredRef
         /\ lastOp'.op \in {"messages", "streamEnd"}
         /\ ~isLoading'
         /\ TailIsAssistant(messages'))
        => (/\ LastMessage(messages').id \in DOMAIN historicalActivities'
            /\ historicalActivities'[LastMessage(messages').id]
                 = processedEventsTimeline'
            /\ processedEventsTimeline' = processedEventsTimeline
            /\ HasFinalizing(processedEventsTimeline')
            /\ \A m \in DOMAIN historicalActivities' :
                  m # LastMessage(messages').id
                  => /\ m \in DOMAIN historicalActivities
                     /\ historicalActivities'[m] = historicalActivities[m]) ]_vars

\* a run of two entries ending in the finalize entry has just been archived
\* under the second message of the list
C1_Witness ==
    /\ lastOp.op = "streamEnd"
    /\ Len(messages) = 2
    /\ TailIsAssistant(messages)
    /\ Len(processedEventsTimeline) = 2
    /\ processedEventsTimeline[2].sectionType = "Finalizing"
    /\ 2 \in DOMAIN historicalActivities
    /\ historicalActivities[2] = processedEventsTimeline

\* C2: a raised finalize signal stays raised over every stream or message
\* step that does not leave the run inactive with an assistant message at
\* the tail (only the archive write or a dispatched submission lowers it).
C2_SignalStaysPending ==
    [][ (/\ hasFinalizeEventOccurredRef
         /\ lastOp'.op \in {"tick", "messages", "streamEnd"}
         /\ ~(~isLoading' /\ TailIsAssistant(messages')))
        => hasFinalizeEventOccurredRef' ]_vars

\* C3: the archive gains or changes a key only in a run in which a
\* Finalizing entry was classified, and the signal is never raised in a run
\* that classified none (no flag is left over from an earlier run).
C3_NoArchiveWithoutFinalize ==
    [][ /\ \A m \in DOMAIN historicalActivities' :
              (m \notin DOMAIN historicalActivities
               \/ historicalActivities'[m] # historicalActivities[m])
              => finalizeInRun'
        /\ hasFinalizeEventOccurredRef' => finalizeInRun' ]_vars

\* a run with entries but no finalize entry has stopped with an assistant
\* message at the tail, and nothing is archived for it
C3_Witness ==
    /\ lastOp.op = "streamEnd"
    /\ ~finalizeInRun
    /\ Len(processedEventsTimeline) > 0
    /\ TailIsAssistant(messages)
    /\ LastMessage(messages).id \notin DOMAIN historicalActivities

\* C4: a tick (an append to the live timeline) leaves every archived
\* timeline as it was.
C4_ArchiveFrozenUnderAppend ==
    [][ lastOp'.op = "tick" => ArchiveKept ]_vars

\* a tick has extended the live timeline of a later run while the archive of
\* an earlier message holds a different timeline
C4_Witness ==
    /\ lastOp.op = "tick"
    /\ Len(processedEventsTimeline) > 0
    /\ \E m \in DOMAIN historicalActivities :
          /\ historicalActivities[m] # processedEventsTimeline
          /\ TailIsAssistant(messages)
          /\ LastMessage(messages).id = m

\* C5: within a session (no page reload) a key of the archive is never
\* removed and its value never replaced.
C5_ArchiveAppendOnly ==
    [][ lastOp'.op # "cancel" => ArchiveKept ]_vars

\* C6 as stated: after every submit the live timeline is empty and the
\* signal is lowered.
C6_EverySubmitResets ==
    lastOp.op = "submit"
    => /\ processedEventsTimeline = <<>>
       /\ ~hasFinalizeEventOccurredRef

\* C6 amended: a submit whose text is not blank empties the live timeline,
\* lowers the signal, marks the run active and leaves the archive as it was
\* (so a pending archive is abandoned, not written); a blank submit changes
\* nothing.
C6_DispatchedSubmitResets ==
    [][ /\ Dispatched(lastOp')
           => /\ processedEventsTimeline' = <<>>
              /\ ~hasFinalizeEventOccurredRef'
              /\ isLoading'
              /\ historicalActivities' = historicalActivities
        /\ (lastOp'.op = "submit" /\ ~Dispatched(lastOp'))
           => UNCHANGED <<processedEventsTimeline, hasFinalizeEventOccurredRef,
                          historicalActivities, isLoading, messages>> ]_vars

\* a submission has just been dispatched while the archive of an earlier run
\* exists
C6_Witness ==
    /\ Dispatched(lastOp)
    /\ processedEventsTimeline = <<>>
    /\ DOMAIN historicalActivities # {}
    /\ isLoading

\* the nodes of a tick that are objects with a non-empty type, in order
TypedNodes(event) ==
    SelectSeq(event, LAMBDA n : n.ev.kind = "object" /\ n.ev.hasType /\ n.ev.type # "")

\* C7: between two resets the live timeline only grows: every step other
\* than a dispatched submit or a reload keeps the previous contents as a
\* prefix; a tick adds one entry per typed node, in the node order of the
\* tick, and nothing when no node is typed; no other step adds anything.
C7_TimelineOnlyGrows ==
    [][ (~Dispatched(lastOp') /\ lastOp'.op # "cancel")
        => /\ IsPrefix(processedEventsTimeline, processedEventsTimeline')
           /\ lastOp'.op # "tick"
                => processedEventsTimeline' = processedEventsTimeline
           /\ lastOp'.op = "tick"
                => LET typed == TypedNodes(lastOp'.event)
                       old == Len(processedEventsTimeline)
                   IN  /\ Len(processedEventsTimeline') = old + Len(typed)
                       /\ \A k \in 1..Len(typed) :
                             processedEventsTimeline'[old + k].data = typed[k].ev.data ]_vars

\* a second tick has been appended behind the entry of the first
C7_Witness ==
    /\ lastOp.op = "tick"
    /\ lastOp.event = TickFinalize
    /\ Len(processedEventsTimeline) = 2
    /\ processedEventsTimeline[1].sectionType = "General"
    /\ processedEventsTimeline[2].sectionType = "Finalizing"

----------------------------------------------------------------------------
(* The classifier on its own: one tick of any shape, delivered to           *)
(* onUpdateEvent right after the first submission was dispatched.            *)

RecognizedNodes ==
    {generate_query, web_research, reflection, code_execution, finalize_answer}

ClassifyNames ==
    RecognizedNodes \cup
    {UnknownNode, <<"_", "x">>, <<"n", "_", "o", "_", "p">>, <<"X", "y">>}

ClassifyTypes == {"status", "sources", "plan", "output", "other", ""}

ClassifyPayloads ==
    {Typed(t, d) : t \in ClassifyTypes, d \in {"d1", "d2"}}
    \cup {Untyped("d1"), NullValue, Primitive}

PairPayloads == {Typed("status", "d1"), Typed("sources", "d2"), Untyped("d1")}

ClassifyEvents ==
    {<<Node(n, p)>> : n \in ClassifyNames, p \in ClassifyPayloads}
    \cup {<<Node(n[1], p[1]), Node(n[2], p[2])>> :
            n \in {x \in ClassifyNames \X ClassifyNames : x[1] # x[2]},
            p \in PairPayloads \X PairPayloads}

InitClassify ==
    /\ processedEventsTimeline = <<>>
    /\ historicalActivities = <<>>
    /\ hasFinalizeEventOccurredRef = FALSE
    /\ messages = <<>>
    /\ isLoading = TRUE
    /\ finalizeInRun = FALSE
    /\ lastOp = Op("submit", <<>>, <<" ", "q">>)
    /\ ViewInit
    /\ RenderInit
    /\ MindInit

NextClassify ==
    \E event \in ClassifyEvents : lastOp.op = "submit" /\ OnUpdateEvent(event)

SpecClassify == InitClassify /\ [][NextClassify]_vars

----------------------------------------------------------------------------
(* Properties of groupedEvents (under SpecView) *)

FirstIndex(events, key) ==
    CHOOSE n \in 1..Len(events) :
        /\ events[n].sectionType = key
        /\ \A m \in 1..(n - 1) : events[m].sectionType # key

\* C8: groupedEvents is a partition of processedEvents: the keys are
\* distinct and are exactly the section types that occur, each category
\* holds the entries of its section type in timeline order (so every entry
\* is in exactly one category), and the keys are in first-occurrence order.
C8_GroupedViewIsPartition ==
    /\ \A i, j \in 1..Len(groupedEvents) :
          i # j => groupedEvents[i].key # groupedEvents[j].key
    /\ {groupedEvents[i].key : i \in 1..Len(groupedEvents)}
         = {processedEvents[k].sectionType : k \in 1..Len(processedEvents)}
    /\ \A i \in 1..Len(groupedEvents) :
          groupedEvents[i].events
            = SelectSeq(processedEvents,
                        LAMBDA e : e.sectionType = groupedEvents[i].key)
    /\ \A i, j \in 1..Len(groupedEvents) :
          i < j => FirstIndex(processedEvents, groupedEvents[i].key)
                     < FirstIndex(processedEvents, groupedEvents[j].key)

\* four entries of three interleaved categories have been grouped
C8_Witness ==
    /\ lastOp.op = "viewAppend"
    /\ Len(processedEvents) = 4
    /\ Len(groupedEvents) = 3
    /\ processedEvents[1].sectionType # processedEvents[2].sectionType
    /\ processedEvents[3].sectionType = processedEvents[1].sectionType
    /\ Len(groupedEvents[1].events) = 2

----------------------------------------------------------------------------
(* Properties of the classifier (under SpecClassify) *)

\* the nodes of a tick that are objects with a type field, empty or not
NodesWithTypeField(event) ==
    SelectSeq(event, LAMBDA n : n.ev.kind = "object" /\ n.ev.hasType)

\* the row of the classification table for a recognized node
TableRow(n, e) ==
    /\ e.data = n.ev.data
    /\ e.isSources = (n.name = web_research /\ n.ev.type = "sources")
    /\ n.name = generate_query
         => e.sectionType = "Querying" /\ e.title = TitleGeneratingSearchQueries
    /\ n.name = web_research
         => /\ e.sectionType = "Searching"
            /\ n.ev.type = "status" => e.title = TitleWebResearchStatus
            /\ n.ev.type = "sources" => e.title = TitleFoundSources
    /\ n.name = reflection
         => /\ e.sectionType = "Planning"
            /\ n.ev.type = "status" => e.title = TitleReflectionStatus
            /\ n.ev.type = "plan" => e.title = TitleReflectionPlan
    /\ n.name = code_execution
         => /\ e.sectionType = "Coding"
            /\ n.ev.type = "status" => e.title = TitleCodeExecutionStatus
            /\ n.ev.type = "output" => e.title = TitleCodeExecutionOutput
    /\ n.name = finalize_answer
         => /\ e.sectionType = "Finalizing"
            /\ e.title = TitleFinalizingAnswer
            /\ hasFinalizeEventOccurredRef

\* the entries of a tick follow the table for the given sequence of nodes
FollowsTable(nodes, entries) ==
    /\ Len(entries) = Len(nodes)
    /\ \A k \in 1..Len(nodes) :
          k <= Len(entries) /\ nodes[k].name \in RecognizedNodes
          => TableRow(nodes[k], entries[k])

\* C9 as stated: every node whose payload has a type field yields exactly
\* one entry, following the table when its name is recognized.
C9_TableForEveryType ==
    lastOp.op = "tick"
    => FollowsTable(NodesWithTypeField(lastOp.event), processedEventsTimeline)

\* C9 amended: every node whose payload has a non-empty type yields exactly
\* one entry, following the table when its name is recognized (section type
\* kept for an unknown type, isSources only for web_research/sources, data
\* unchanged, the signal raised by finalize_answer).
C9_TableForNonEmptyType ==
    lastOp.op = "tick"
    => FollowsTable(TypedNodes(lastOp.event), processedEventsTimeline)

\* a tick of a finalize node and a web_research sources node was classified
C9_Witness ==
    /\ lastOp.op = "tick"
    /\ Len(processedEventsTimeline) = 2
    /\ processedEventsTimeline[1].sectionType = "Finalizing"
    /\ processedEventsTimeline[2].title = TitleFoundSources
    /\ processedEventsTimeline[2].isSources
    /\ hasFinalizeEventOccurredRef

\* title is name with every underscore replaced by a space and its first
\* character in upper case
IsHumanized(title, name) ==
    /\ Len(title) = Len(name)
    /\ \A i \in 2..Len(name) :
          title[i] = (IF name[i] = "_" THEN " " ELSE name[i])
    /\ Len(name) > 0
         => \/ name[1] = "_" /\ title[1] = " "
            \/ \E k \in 1..26 :
                  name[1] = LowerCaseLetters[k] /\ title[1] = UpperCaseLetters[k]
            \/ /\ name[1] # "_"
               /\ \A k \in 1..26 : name[1] # LowerCaseLetters[k]
               /\ title[1] = name[1]

\* the General entries of a tick are, one for one and in order, the given
\* nodes with humanized titles
GeneralEntriesAre(nodes) ==
    LET general == SelectSeq(processedEventsTimeline,
                             LAMBDA e : e.sectionType = "General")
    IN  /\ Len(general) = Len(nodes)
        /\ \A k \in 1..Len(nodes) :
              k <= Len(general)
              => /\ IsHumanized(general[k].title, nodes[k].name)
                 /\ general[k].data = nodes[k].ev.data

\* C10 as stated: every node with an unrecognized name yields exactly one
\* General entry with the humanized name as title.
C10_OneGeneralPerUnknownNode ==
    lastOp.op = "tick"
    => GeneralEntriesAre(SelectSeq(lastOp.event,
                                   LAMBDA n : n.name \notin RecognizedNodes))

\* C10 amended: every node with an unrecognized name whose payload is an
\* object with a non-empty type yields exactly one General entry with the
\* humanized name as title, and no other node yields a General entry.
C10_OneGeneralPerTypedUnknownNode ==
    lastOp.op = "tick"
    => GeneralEntriesAre(SelectSeq(TypedNodes(lastOp.event),
                                   LAMBDA n : n.name \notin RecognizedNodes))

\* a node named n_o_p was classified
C10_Witness ==
    /\ lastOp.op = "tick"
    /\ \E k \in 1..Len(processedEventsTimeline) :
          /\ processedEventsTimeline[k].sectionType = "General"
          /\ processedEventsTimeline[k].title = <<"N", " ", "o", " ", "p">>


\* the payload of a node is not an object or has no type field
LacksType(n) == n.ev.kind # "object" \/ ~n.ev.hasType

\* C11: a node whose payload is not an object or has no type field yields
\* no entry and raises nothing: the entries of a tick come, in order, from
\* its other nodes only (which are still classified), the signal is raised
\* only by a finalize_answer node that has a type, the archive is left as it
\* was, and a tick of such nodes alone leaves the live timeline empty.
C11_UntypedNodeIgnored ==
    lastOp.op = "tick"
    => LET others == SelectSeq(lastOp.event, LAMBDA n : ~LacksType(n))
           nonEmpty == SelectSeq(others, LAMBDA n : n.ev.type # "")
       IN  /\ Len(processedEventsTimeline) <= Len(others)
           /\ Len(processedEventsTimeline) = Len(nonEmpty)
           /\ \A k \in 1..Len(nonEmpty) :
                 k <= Len(processedEventsTimeline)
                 => processedEventsTimeline[k].data = nonEmpty[k].ev.data
           /\ hasFinalizeEventOccurredRef
                => \E i \in 1..Len(others) : others[i].name = finalize_answer
           /\ historicalActivities = <<>>
           /\ (\A i \in 1..Len(lastOp.event) : LacksType(lastOp.event[i]))
                => /\ processedEventsTimeline = <<>>
                   /\ ~hasFinalizeEventOccurredRef

\* a tick of a finalize_answer node without a type and a typed node was
\* classified: one entry, no signal
C11_Witness ==
    /\ lastOp.op = "tick"
    /\ Len(lastOp.event) = 2
    /\ lastOp.event[1].name = finalize_answer
    /\ LacksType(lastOp.event[1])
    /\ ~LacksType(lastOp.event[2])
    /\ Len(processedEventsTimeline) = 1
    /\ processedEventsTimeline[1].sectionType = "Searching"
    /\ ~hasFinalizeEventOccurredRef


----------------------------------------------------------------------------
(* toggleSection as a function: one application from any expandedSections *)

InitToggle ==
    /\ AppInit
    /\ processedEvents = <<>>
    /\ groupedEvents = <<>>
    /\ expandedSections \in ExpandStates
    /\ RenderInit
    /\ MindInit
    /\ lastOp = Op("init", <<>>, <<>>)

ToggleStep(sectionType) ==
    /\ lastOp.op = "init"
    /\ expandedSections' = ToggleSection(expandedSections, sectionType)
    /\ lastOp' = Op("toggle", <<sectionType>>, <<>>)
    /\ UNCHANGED <<processedEvents, groupedEvents, nonViewVars>>

NextToggle == \E sectionType \in AllSectionTypes : ToggleStep(sectionType)

SpecToggle == InitToggle /\ [][NextToggle]_vars

----------------------------------------------------------------------------
(* Claims about expandedSections *)

\* C12: every category of the grouped view has a key in expandedSections
\* in every state; a key that appears is inserted with the value true, by a
\* step that brings its category into the view and never by a toggle; and a
\* step that is not a toggle leaves every key whose value is false at false.
C12_NewCategoryDefault ==
    /\ GroupKeys(groupedEvents) \subseteq DOMAIN expandedSections
    /\ [][ /\ GroupKeys(groupedEvents') \subseteq DOMAIN expandedSections'
           /\ \A c \in DOMAIN expandedSections' \ DOMAIN expandedSections :
                 /\ expandedSections'[c] = TRUE
                 /\ c \in GroupKeys(groupedEvents')
                 /\ c \notin GroupKeys(groupedEvents)
                 /\ lastOp'.op # "toggle"
           /\ lastOp'.op # "toggle"
                => \A c \in DOMAIN expandedSections :
                      expandedSections[c] = FALSE
                        => /\ c \in DOMAIN expandedSections'
                           /\ expandedSections'[c] = FALSE ]_vars

\* an entry of a category the user has collapsed was just appended, and
\* another category still has its default
C12_Witness ==
    /\ lastOp.op = "viewAppend"
    /\ processedEvents[Len(processedEvents)].sectionType = "Querying"
    /\ Len(SelectSeq(processedEvents, LAMBDA e : e.sectionType = "Querying")) = 1
    /\ "Querying" \in DOMAIN expandedSections
    /\ expandedSections["Querying"] = FALSE
    /\ "Searching" \in GroupKeys(groupedEvents)
    /\ expandedSections["Searching"] = TRUE

C14_ToggleRoundTrip ==
    [][ lastOp'.op = "toggle"
          => LET c == lastOp'.event[1]
             IN  /\ c \in GroupKeys(groupedEvents')
                 /\ expandedSections' # expandedSections
                 /\ AutoExpand(groupedEvents',
                               ToggleSection(expandedSections', c))
                      = expandedSections ]_vars

\* a category is expanded again by the second of its toggles while another
\* one stays collapsed
C14_Witness ==
    /\ lastOp = Op("toggle", <<"Searching">>, <<>>)
    /\ expandedSections["Searching"] = TRUE
    /\ "Querying" \in DOMAIN expandedSections
    /\ expandedSections["Querying"] = FALSE

\* C15: a step that is not a toggle (an appended entry, a finalize entry
\* included, or the reset of the timeline by a new submission) removes no
\* key of expandedSections and changes the value of none; a toggle removes
\* no key either.
C15_ExpandStateFrame ==
    [][ /\ DOMAIN expandedSections \subseteq DOMAIN expandedSections'
        /\ lastOp'.op \in {"viewAppend", "viewReset"}
             => \A c \in DOMAIN expandedSections :
                   expandedSections'[c] = expandedSections[c] ]_vars

\* a category collapsed in an earlier run is still collapsed after the reset
\* and the finalize entry of the next run, though it has no entry now
C15_Witness ==
    /\ lastOp.op = "viewAppend"
    /\ processedEvents[Len(processedEvents)].sectionType = "Finalizing"
    /\ \E c \in DOMAIN expandedSections :
          /\ expandedSections[c] = FALSE
          /\ c \notin GroupKeys(groupedEvents)


----------------------------------------------------------------------------
(* Claims about cancel and about submit during a run *)

\* C16: a cancel while a run is active ends the run and leaves the live
\* timeline as it was, entry for entry, and the archive as it was.
C16_CancelKeepsLiveTimeline ==
    [][ (isLoading /\ lastOp'.op = "cancel")
          => /\ ~isLoading'
             /\ processedEventsTimeline' = processedEventsTimeline
             /\ historicalActivities' = historicalActivities ]_vars

\* C17: no submit clears the live timeline and dispatches a run while a
\* run is active.
C17_NoSubmitWhileRunActive ==
    [][ Dispatched(lastOp') => ~isLoading ]_vars


----------------------------------------------------------------------------
(* The payload rendering as a function: one rendering of any entry *)

InitRender ==
    /\ AppInit
    /\ ViewInit
    /\ renderEvent \in RenderEntries
    /\ rendered = <<>>
    /\ MindInit
    /\ lastOp = Op("init", <<>>, <<>>)

RenderPayload ==
    /\ lastOp.op = "init"
    /\ rendered' = RenderEventData(renderEvent)
    /\ lastOp' = Op("render", <<>>, <<>>)
    /\ UNCHANGED <<renderEvent, appState, viewVars, mindVars>>

NextRender == RenderPayload

SpecRender == InitRender /\ [][NextRender]_vars

\* a field or url that is text and not empty
NonEmptyText(v) == v.kind = "string" /\ v.text # ""

RECURSIVE LinksOf(_)
\* one link per element with a non-empty url, labelled by its title when it
\* has a non-empty one, else by the url
LinksOf(items) ==
    IF items = <<>> THEN <<>>
    ELSE (IF NonEmptyText(Head(items).url)
          THEN <<Block("link",
                       IF NonEmptyText(Head(items).title)
                       THEN Head(items).title ELSE Head(items).url,
                       Head(items).url)>>
          ELSE <<>>)
         \o LinksOf(Tail(items))

\* the labelled blocks of the fields that are non-empty text, in the order
\* stdout, stderr, error
TextBlocksOf(data) ==
    (IF NonEmptyText(data.stdout) THEN <<Block("STDOUT", data.stdout, Absent)>> ELSE <<>>)
    \o (IF NonEmptyText(data.stderr) THEN <<Block("STDERR", data.stderr, Absent)>> ELSE <<>>)
    \o (IF NonEmptyText(data.error) THEN <<Block("ERROR", data.error, Absent)>> ELSE <<>>)

\* C18: what is rendered for an entry follows one rule, in this precedence:
\* sources flag and array data give the links of the elements with a url;
\* string data gives the text; an object with stdout, stderr or error as
\* text gives the blocks of its non-empty text fields and omits the others;
\* anything else gives the dump.
C18_RenderPrecedence ==
    lastOp.op = "render"
    => LET data == renderEvent.data
       IN  rendered =
             IF renderEvent.isSources /\ data.kind = "array"
             THEN LinksOf(data.items)
             ELSE IF data.kind = "string"
             THEN <<Block("text", Text(data.text), Absent)>>
             ELSE IF /\ data.kind = "object"
                     /\ \/ data.stdout.kind = "string"
                        \/ data.stderr.kind = "string"
                        \/ data.error.kind = "string"
             THEN TextBlocksOf(data)
             ELSE <<Block("dump", Absent, Absent)>>


----------------------------------------------------------------------------
(* MindMapModal.  The component returns null before its useEffect when      *)
(* isOpen is false, so the effect exists only in an instance rendered with   *)
(* isOpen true, and a render with the other value of isOpen calls a          *)
(* different number of hooks, which React rejects with an error that         *)
(* unmounts the tree.  The then/catch/finally chain of a settled fetch runs  *)
(* in consecutive microtasks and is one step.                                *)

\* the fetch effect after a commit with the props open and history
RunEffect(open, history, loading, err, raw) ==
    IF EffectFires(open, history)
    THEN /\ mindIsLoading' = TRUE
         /\ error' = NullError
         /\ rawMermaid' = ""
         /\ inflight' = inflight \cup {Request(requestCount + 1, FALSE)}
         /\ requestCount' = requestCount + 1
         /\ issuedHere' = (IF mounted THEN issuedHere ELSE 0) + 1
    ELSE /\ mindIsLoading' = loading
         /\ error' = err
         /\ rawMermaid' = raw
         /\ inflight' = inflight
         /\ requestCount' = requestCount
         /\ issuedHere' = IF mounted THEN issuedHere ELSE 0

\* the parent mounts the modal with its props
MindMount(open, history) ==
    /\ ~mounted
    /\ requestCount < MaxRequests
    /\ mounted' = TRUE
    /\ isOpen' = open
    /\ chatHistory' = history
    /\ RunEffect(open, history, FALSE, NullError, "")
    /\ lastOp' = Op("mindMount", <<>>, <<>>)
    /\ UNCHANGED <<settled, appState, viewVars, renderVars>>

\* the parent hands a new chatHistory array to the mounted modal
MindHistoryChange(history) ==
    /\ mounted
    /\ requestCount < MaxRequests
    /\ chatHistory' = history
    /\ RunEffect(isOpen, history, mindIsLoading, error, rawMermaid)
    /\ lastOp' = Op("mindHistory", <<>>, <<>>)
    /\ UNCHANGED <<mounted, isOpen, settled, appState, viewVars, renderVars>>

\* the requests in flight once the mounted instance is gone
Orphaned == {Request(r.id, TRUE) : r \in inflight}

\* the parent changes isOpen on the mounted modal: the render calls another
\* number of hooks than the one before, React throws and unmounts the tree
MindSetOpen ==
    /\ mounted
    /\ mounted' = FALSE
    /\ isOpen' = ~isOpen
    /\ mindIsLoading' = FALSE
    /\ error' = NullError
    /\ rawMermaid' = ""
    /\ inflight' = Orphaned
    /\ issuedHere' = 0
    /\ lastOp' = Op("mindSetOpen", <<>>, <<>>)
    /\ UNCHANGED <<chatHistory, requestCount, settled, appState, viewVars, renderVars>>

\* the parent removes the modal
MindUnmount ==
    /\ mounted
    /\ mounted' = FALSE
    /\ isOpen' = FALSE
    /\ mindIsLoading' = FALSE
    /\ error' = NullError
    /\ rawMermaid' = ""
    /\ inflight' = Orphaned
    /\ issuedHere' = 0
    /\ lastOp' = Op("mindUnmount", <<>>, <<>>)
    /\ UNCHANGED <<chatHistory, requestCount, settled, appState, viewVars, renderVars>>

\* a fetch settles: then, catch and finally; the setters of an instance
\* that is gone do nothing
MindSettle(request, response) ==
    /\ request \in inflight
    /\ inflight' = inflight \ {request}
    /\ IF request.orphan
       THEN UNCHANGED <<mindIsLoading, error, rawMermaid, settled>>
       ELSE LET result == Settle(response, error)
            IN  /\ rawMermaid' = result.rawMermaid
                /\ error' = result.error
                /\ mindIsLoading' = FALSE
                /\ settled' = IF result.error = NullError /\ result.rawMermaid # ""
                              THEN "success" ELSE "error"
    /\ lastOp' = Op("mindSettle", <<request>>, <<response>>)
    /\ UNCHANGED <<mounted, isOpen, chatHistory, requestCount, issuedHere,
                   appState, viewVars, renderVars>>

NextMind ==
    \/ \E open \in BOOLEAN, history \in ChatHistories : MindMount(open, history)
    \/ \E history \in ChatHistories : MindHistoryChange(history)
    \/ MindSetOpen
    \/ MindUnmount
    \/ \E request \in inflight, response \in Responses : MindSettle(request, response)

SpecMind == Init /\ [][NextMind]_vars



----------------------------------------------------------------------------
(* Claims about the mind-map request *)

\* the step issues a request
Issues == requestCount' = requestCount + 1

\* the step settles the only request the mounted instance has issued
SettlesSingle ==
    /\ lastOp'.op = "mindSettle"
    /\ ~lastOp'.event[1].orphan
    /\ issuedHere = 1

\* C19: the first request of an instance puts it in loading with no error
\* and no diagram and it stays there until the request settles; a 2xx
\* response with a non-empty mermaid_string then leaves the diagram source
\* and no error, anything else leaves an error message and an empty diagram
\* source; loading is false after either, and no step of the modal changes
\* the live timeline, the archive or the expand state.
C19_SingleRequestOutcome ==
    [][ /\ (Issues /\ issuedHere' = 1)
             => mindIsLoading' /\ error' = NullError /\ rawMermaid' = ""
        /\ (issuedHere' = 1 /\ \E r \in inflight' : ~r.orphan)
             => mindIsLoading' /\ error' = NullError /\ rawMermaid' = ""
        /\ SettlesSingle
             => LET response == lastOp'.text[1]
                IN  /\ ~mindIsLoading'
                    /\ \A r \in inflight' : r.orphan
                    /\ IF response.kind = "ok" /\ response.mermaid_string # ""
                       THEN /\ rawMermaid' = response.mermaid_string
                            /\ error' = NullError
                            /\ settled' = "success"
                       ELSE /\ rawMermaid' = ""
                            /\ error' \notin {NullError, ""}
                            /\ settled' = "error"
        /\ processedEventsTimeline' = processedEventsTimeline
        /\ historicalActivities' = historicalActivities
        /\ expandedSections' = expandedSections ]_vars

\* a 2xx response without a mermaid_string has ended the only request in
\* the error state
C19_Witness ==
    /\ lastOp.op = "mindSettle"
    /\ lastOp.text[1] = Response("ok", "", "")
    /\ ~lastOp.event[1].orphan
    /\ mounted /\ issuedHere = 1
    /\ ~mindIsLoading
    /\ error = "Received no mermaid_string or empty data in response."
    /\ rawMermaid = ""

\* the step opens the feature: the modal is mounted with isOpen true, or
\* isOpen is set to true on a mounted modal
Opens ==
    \/ lastOp'.op = "mindMount" /\ isOpen'
    \/ lastOp'.op = "mindSetOpen" /\ isOpen'

SettlesStale ==
    /\ lastOp'.op = "mindSettle"
    /\ ~lastOp'.event[1].orphan
    /\ \E q \in inflight' : ~q.orphan /\ q.id > lastOp'.event[1].id

\* the request the step settles is the last one the mounted instance issued
SettlesNewest ==
    /\ lastOp'.op = "mindSettle"
    /\ ~lastOp'.event[1].orphan
    /\ \A q \in inflight' : ~q.orphan => q.id < lastOp'.event[1].id

\* C21: with two requests of the modal in flight, the response of the older
\* one changes nothing of the state while the newer one is pending: loading
\* stays true until the newest request settles, and error and diagram
\* source are then the ones the newest response alone produces, in either
\* order of arrival.
C21_StaleResponseIgnored ==
    [][ /\ SettlesStale
             => /\ mindIsLoading'
                /\ error' = error
                /\ rawMermaid' = rawMermaid
        /\ SettlesNewest
             => LET result == Settle(lastOp'.text[1], NullError)
                IN  /\ error' = result.error
                    /\ rawMermaid' = result.rawMermaid ]_vars

====
